---- MODULE Spec2Model ----
(***************************************************************************)
(* x-bookmarks: the OAuth 2.0 PKCE helper (scripts/x_api_auth.py) and the  *)
(* bookmark fetcher (scripts/fetch_bookmarks_api.py) as state machines.    *)
(*                                                                         *)
(* SpecAuthorize : one run of x_api_auth.py without --refresh or           *)
(*                 --print-token, i.e. authorize.                          *)
(* SpecToken     : runs of --print-token, --refresh and of the fetcher's   *)
(*                 token acquisition, i.e. get_valid_token and callers.    *)
(* SpecFetch     : fetch_all_bookmarks, the pagination loop.               *)
(* SpecAuthorizeLive : SpecAuthorize with the fairness of the listener's   *)
(*                 timeout and of the statements after it.                 *)
(* SpecNormalize : fetch_all_bookmarks over one page of two raw items that *)
(*                 carry referenced_tweets, i.e. normalize_tweet.          *)
(*                                                                         *)
(* Python values: a dict is a record over its possible keys, a key that is *)
(* not in the dict is Absent (as is None), the empty string is Empty, and  *)
(* every other string is a positive number naming it.                      *)
(***************************************************************************)
EXTENDS Integers, Sequences, FiniteSets, TLC

\* ---------------------------------------------------------------- bounds
MaxTok == 2        \* distinct access-token / refresh-token strings
MaxExp == 1        \* distinct expires_in values
MaxNonce == 2      \* distinct values of the random state and verifier
MaxCode == 1       \* distinct authorization codes a callback can carry
MaxClient == 1     \* distinct non-empty client ids / client secrets
MaxCount == 3      \* largest --count
MaxPageItems == 2  \* most items the provider puts in one page
MaxCursor == 2     \* distinct next_token values
MaxLongPages == 2  \* page requests followed for a count above one page
MaxRefs == 2       \* most entries in an item's referenced_tweets

\* ---------------------------------------------------------------- values
Absent == -1       \* the dict has no such key; None for a variable
Empty == 0         \* the empty string ""
Truthy(v) == v > 0 \* Python truth of a string-or-None value

Tok == 1..MaxTok
Nonces == 1..MaxNonce

\* A token endpoint response / the content of tokens.json.
TokenDicts ==
    [access_token : {Absent, Empty} \cup Tok,
     refresh_token : {Absent, Empty} \cup Tok,
     expires_in : {Absent} \cup (1..MaxExp)]

EmptyDict == [access_token |-> Absent, refresh_token |-> Absent, expires_in |-> Absent]

\* Python truth of a dict: a dict with no key is false.
DictTruthy(d) ==
    d.access_token # Absent \/ d.refresh_token # Absent \/ d.expires_in # Absent

NoConfig == [client_id |-> Absent, client_secret |-> Absent]

ClientIds == {Empty} \cup (1..MaxClient)
ClientSecrets == {Empty} \cup (1..MaxClient)

\* The query parameters of one inbound request, as parse_qs returns them
\* (parse_qs drops blank values, so a parameter is Absent or non-empty).
Requests ==
    [path : {"/callback", "/other"},
     state : {Absent} \cup Nonces,
     error : {Absent, 1},
     code : {Absent} \cup (1..MaxCode)]

NoRequest == [path |-> "none", state |-> Absent, error |-> Absent, code |-> Absent]

StateMismatch == 99   \* the error string "State mismatch"

\* ------------------------------------------------------------------- PKCE
\* Strings whose text is random or a digest are described by what is known of
\* them: their length and the classes of characters they are drawn from.
Base64UrlChars == {"A-Z", "a-z", "0-9", "-", "_"}

VerifierBytes == 64   \* secrets.token_urlsafe(64)
VerifierMax == 128    \* [:128]
Sha256Bytes == 32     \* length of a SHA-256 digest

\* base64 of nbytes bytes: four characters per three bytes, the last group
\* filled with "=".
b64_len(nbytes) == 4 * ((nbytes + 2) \div 3)
b64_pad(nbytes) == (3 - (nbytes % 3)) % 3

\* secrets.token_urlsafe(nbytes): base64url of nbytes random bytes without
\* the padding.
token_urlsafe(nbytes) ==
    [len |-> b64_len(nbytes) - b64_pad(nbytes), chars |-> Base64UrlChars]

\* s[:n]
Slice(s, n) == [s EXCEPT !.len = IF s.len < n THEN s.len ELSE n]

\* The text of every verifier generate_pkce makes.
VerifierText == Slice(token_urlsafe(VerifierBytes), VerifierMax)

\* hashlib.sha256(verifier.encode()).digest(): the digest of verifier v.
sha256(v) == [digest_of |-> v, bytes |-> Sha256Bytes]

\* base64.urlsafe_b64encode(b)
urlsafe_b64encode(b) ==
    [of |-> b, chars |-> Base64UrlChars, len |-> b64_len(b.bytes), pad |-> b64_pad(b.bytes)]

\* rstrip that leaves the padding in place.
rstrip_pad_kept(e) == e

\* .rstrip(b"=")
rstrip_pad(e) == [e EXCEPT !.len = e.len - e.pad, !.pad = 0]

\* generate_pkce, for the verifier named v.
generate_pkce(v) ==
    [verifier |-> v, challenge |-> rstrip_pad(urlsafe_b64encode(sha256(v)))]

NoChallenge ==
    [of |-> [digest_of |-> Absent, bytes |-> 0], chars |-> {}, len |-> 0, pad |-> 0]

NoAuthParams ==
    [client_id |-> Empty, state |-> Absent, code_challenge |-> NoChallenge,
     code_challenge_method |-> "none"]

\* The auth_params authorize builds.
AuthParams(client_id, st, ch) ==
    [client_id |-> client_id, state |-> st, code_challenge |-> ch,
     code_challenge_method |-> "S256"]

VARIABLES
    tokenFile,      \* tokens.json: [exists, content, mode]
    configFile,     \* config.json: [exists, content]
    cmd,            \* the command this process runs
    pc,             \* where the process is
    exitCode,       \* -1 while running, else the process exit status
    args,           \* --client-id / --client-secret
    state,          \* authorize: the anti-forgery state
    verifier,       \* authorize: the PKCE verifier
    challenge,      \* authorize: the PKCE challenge
    auth_params,    \* authorize: the query of the authorization URL
    result,         \* authorize: {"code": ..., "error": ...}
    server,         \* authorize: "none", "open", "closed"
    request,        \* authorize: the request do_GET handled, or NoRequest
    handled,        \* authorize: number of requests the listener handled
    tokens,         \* get_valid_token: the loaded tokens
    response,       \* the JSON object the token endpoint answered
    http,           \* how the token endpoint answered: "none", "2xx", "error"
    ret,            \* get_valid_token's return value / main's token
    taken,          \* which return of get_valid_token was taken
    tokenRequests,  \* requests this process sent to the token endpoint
    saves,          \* files this process wrote, in order
    before,         \* the two files when authorize / get_valid_token was called
    count,          \* fetch_all_bookmarks: the requested count
    all_pages,      \* fetch_all_bookmarks: --all
    remaining,      \* fetch_all_bookmarks: items still wanted
    bookmarks,      \* fetch_all_bookmarks: the normalized items so far
    pagination_token, \* fetch_all_bookmarks: the cursor for the next request
    pageRequests,   \* the page requests sent, in order
    responses,      \* the provider's answers to them, in order
    retval,         \* the list fetch_all_bookmarks returned
    raised,         \* the exception that left fetch_all_bookmarks, or "none"
    since_id        \* fetch_all_bookmarks: --since-id

vars == <<tokenFile, configFile, cmd, pc, exitCode, args, state, verifier, challenge,
          auth_params, result,
          server, request, handled, tokens, response, http, ret, taken,
          tokenRequests, saves, before,
          count, all_pages, remaining, bookmarks, pagination_token, pageRequests,
          responses, retval, raised, since_id>>

persisted == <<tokenFile, configFile>>
authLocals == <<state, verifier, challenge, auth_params, result, server, request, handled>>
gvtLocals == <<tokens, ret, taken>>
fetchVars == <<count, all_pages, remaining, bookmarks, pagination_token, pageRequests,
               responses, retval, raised, since_id>>

NoTokenFile == [exists |-> FALSE, content |-> EmptyDict, mode |-> "none"]
NoConfigFile == [exists |-> FALSE, content |-> NoConfig]

\* Modes a newly created file can get from the process umask.
CreateModes == {"0644", "0600"}

\* ------------------------------------------------------------ file access
\* load_tokens: None when the file does not exist.
load_tokens(f) == IF f.exists THEN f.content ELSE EmptyDict

\* load_config: {} when the file does not exist.
load_config(f) == IF f.exists THEN f.content ELSE NoConfig

\* save_config that never stores the secret.
save_config_without_secret(client_id, client_secret) ==
    [exists |-> TRUE, content |-> [client_id |-> client_id, client_secret |-> Absent]]

\* save_config: client_secret is stored only when it is non-empty.
save_config(client_id, client_secret) ==
    [exists |-> TRUE,
     content |-> [client_id |-> client_id,
                  client_secret |-> IF Truthy(client_secret) THEN client_secret ELSE Absent]]

\* TOKEN_FILE.write_text: creates the file with a umask mode, or truncates it
\* and keeps its mode.
write_text(f, d, m) ==
    [exists |-> TRUE, content |-> d, mode |-> IF f.exists THEN f.mode ELSE m]

\* os.chmod(TOKEN_FILE, 0o600)
chmod(f) == [f EXCEPT !.mode = "0600"]

\* A tokens.json / config.json that an earlier run of the tool left behind.
SavedTokenFile(d) == [exists |-> TRUE, content |-> d, mode |-> "0600"]

ArgSets == [client_id : ClientIds, client_secret : ClientSecrets]
NoArgs == [client_id |-> Empty, client_secret |-> Empty]

\* The process has not started: every local has its initial value.
InitLocals ==
    /\ cmd = "none"
    /\ pc = "idle"
    /\ exitCode = -1
    /\ args = NoArgs
    /\ state = Absent
    /\ verifier = Absent
    /\ challenge = NoChallenge
    /\ auth_params = NoAuthParams
    /\ result = [code |-> Absent, error |-> Absent]
    /\ server = "none"
    /\ request = NoRequest
    /\ handled = 0
    /\ tokens = EmptyDict
    /\ response = EmptyDict
    /\ http = "none"
    /\ ret = Absent
    /\ taken = "none"
    /\ tokenRequests = <<>>
    /\ saves = <<>>
    /\ before = [tokenFile |-> tokenFile, configFile |-> configFile]

\* fetch_all_bookmarks has not been called.
InitFetchVars ==
    /\ count = 0
    /\ all_pages = FALSE
    /\ remaining = 0
    /\ bookmarks = <<>>
    /\ pagination_token = Absent
    /\ pageRequests = <<>>
    /\ responses = <<>>
    /\ retval = <<>>
    /\ raised = "none"
    /\ since_id = Absent

\* The HTTP Basic credentials of a token request: sent only with a secret.
BasicAuth(client_id, client_secret) ==
    IF Truthy(client_secret) THEN <<client_id, client_secret>> ELSE <<>>

\* -------------------------------------------------------------- authorize
\* What an earlier successful authorization left on disk.
OldTokens == [access_token |-> 1, refresh_token |-> 1, expires_in |-> 1]
OldConfig == save_config(1, Empty)

\* authorize starts on a fresh install, or over the files of an earlier run
\* (the token file alone if that run was interrupted before save_config).
InitAuthorize ==
    /\ tokenFile \in {NoTokenFile, SavedTokenFile(OldTokens)}
    /\ configFile \in {NoConfigFile, OldConfig}
    /\ tokenFile.exists \/ ~configFile.exists
    /\ InitLocals
    /\ InitFetchVars

\* authorize up to webbrowser.open: fresh verifier and state, empty result,
\* the listener bound to the port.
StartAuthorize ==
    /\ pc = "idle"
    /\ cmd' = "authorize"
    /\ \E a \in ArgSets, s \in Nonces, v \in Nonces :
        /\ args' = a
        /\ verifier' = generate_pkce(v).verifier
        /\ challenge' = generate_pkce(v).challenge
        /\ state' = s
        /\ auth_params' = AuthParams(a.client_id, s, generate_pkce(v).challenge)
    /\ result' = [code |-> Absent, error |-> Absent]
    /\ server' = "open"
    /\ pc' = "listening"
    /\ UNCHANGED <<fetchVars, persisted, exitCode, request, handled, gvtLocals, response, http,
                   tokenRequests, saves, before>>

\* authorize up to HTTPServer(...): the port is taken, bind raises OSError,
\* nothing catches it and the interpreter exits with status 1.
authorize_bind_fails ==
    /\ pc = "idle"
    /\ cmd' = "authorize"
    /\ \E a \in ArgSets, s \in Nonces, v \in Nonces :
        /\ args' = a
        /\ verifier' = generate_pkce(v).verifier
        /\ challenge' = generate_pkce(v).challenge
        /\ state' = s
        /\ auth_params' = AuthParams(a.client_id, s, generate_pkce(v).challenge)
    /\ pc' = "done"
    /\ exitCode' = 1
    /\ UNCHANGED <<fetchVars, persisted, result, server, request, handled, gvtLocals,
                   response, http, tokenRequests, saves, before>>

\* do_GET without the state comparison.
do_GET_unchecked_state(res, req, st) ==
    IF req.path = "/callback"
    THEN IF req.error # Absent
         THEN [res EXCEPT !.error = req.error]
         ELSE [res EXCEPT !.code = req.code]
    ELSE res

\* do_GET taking the code although the provider sent an error parameter.
do_GET_ignoring_error(res, req, st) ==
    IF req.path = "/callback"
    THEN IF req.state # st
         THEN [res EXCEPT !.error = StateMismatch]
         ELSE [res EXCEPT !.code = req.code]
    ELSE res

\* Handler.do_GET: what one request does to result.
do_GET(res, req, st) ==
    IF req.path = "/callback"
    THEN IF req.state # st
         THEN [res EXCEPT !.error = StateMismatch]
         ELSE IF req.error # Absent
              THEN [res EXCEPT !.error = req.error]
              ELSE [res EXCEPT !.code = req.code]
    ELSE res

\* server.handle_request(): one request arrives and is handled.
handle_request ==
    /\ pc = "listening"
    /\ \E r \in Requests :
        /\ request' = r
        /\ result' = do_GET(result, r, state)
    /\ handled' = handled + 1
    /\ pc' = "handled"
    /\ UNCHANGED <<fetchVars, persisted, cmd, exitCode, args, state, verifier, challenge, auth_params,
                   server, gvtLocals,
                   response, http, tokenRequests, saves, before>>

\* A listener without server.timeout: the wait goes on.
handle_timeout_never ==
    /\ pc = "listening"
    /\ UNCHANGED vars

\* server.handle_request(): the 120 s timeout passes with no request.
handle_timeout ==
    /\ pc = "listening"
    /\ pc' = "handled"
    /\ UNCHANGED <<fetchVars, persisted, cmd, exitCode, args, authLocals, gvtLocals, response, http,
                   tokenRequests, saves, before>>

\* server.server_close()
server_close ==
    /\ pc = "handled"
    /\ server' = "closed"
    /\ pc' = "closed"
    /\ UNCHANGED <<fetchVars, persisted, cmd, exitCode, args, state, verifier, challenge, auth_params,
                   result, request,
                   handled, gvtLocals, response, http, tokenRequests, saves, before>>

\* The two checks after the listener: does authorize go on to the exchange?
HasCode(res) == ~Truthy(res.error) /\ Truthy(res.code)

\* authorize, "if result['error'] ... if not result['code'] ... sys.exit(1)"
authorize_check ==
    /\ pc = "closed"
    /\ IF HasCode(result)
       THEN pc' = "exchange" /\ UNCHANGED exitCode
       ELSE pc' = "done" /\ exitCode' = 1
    /\ UNCHANGED <<fetchVars, persisted, cmd, args, authLocals, gvtLocals, response, http,
                   tokenRequests, saves, before>>

\* The form exchange_code posts.
ExchangeRequest(code, v, client_id, client_secret) ==
    [grant_type |-> "authorization_code", code |-> code, code_verifier |-> v,
     refresh_token |-> Absent, client_id |-> client_id,
     basic |-> BasicAuth(client_id, client_secret)]

\* tokens = exchange_code(...) answered 2xx with a JSON object, then
\* save_tokens(tokens) up to TOKEN_FILE.write_text.
exchange_code ==
    /\ pc = "exchange"
    /\ tokenRequests' = Append(tokenRequests,
           ExchangeRequest(result.code, verifier, args.client_id, args.client_secret))
    /\ \E d \in TokenDicts, m \in CreateModes :
        /\ response' = d
        /\ http' = "2xx"
        /\ tokenFile' = write_text(tokenFile, d, m)
    /\ saves' = Append(saves, "tokens")
    /\ pc' = "chmod"
    /\ UNCHANGED <<fetchVars, configFile, cmd, exitCode, args, authLocals, gvtLocals, before>>

\* exchange_code: urlopen raises (network error, non-2xx); nothing catches it
\* and the interpreter exits with status 1.
exchange_code_fails ==
    /\ pc = "exchange"
    /\ tokenRequests' = Append(tokenRequests,
           ExchangeRequest(result.code, verifier, args.client_id, args.client_secret))
    /\ http' = "error"
    /\ pc' = "done"
    /\ exitCode' = 1
    /\ UNCHANGED <<fetchVars, persisted, cmd, args, authLocals, gvtLocals, response, saves,
                   before>>

\* Where save_tokens returns to: authorize line 206, get_valid_token line 133.
AfterSaveTokens(c) == IF c = "authorize" THEN "save_config" ELSE "return_new"

\* save_tokens, after write_text: os.chmod(TOKEN_FILE, 0o600), and return.
save_tokens_chmod ==
    /\ pc = "chmod"
    /\ tokenFile' = chmod(tokenFile)
    /\ pc' = AfterSaveTokens(cmd)
    /\ UNCHANGED <<fetchVars, configFile, cmd, exitCode, args, authLocals, gvtLocals, response, http,
                   tokenRequests, saves, before>>

\* authorize, save_config(client_id, client_secret); authorize and main return.
authorize_save_config ==
    /\ pc = "save_config"
    /\ configFile' = save_config(args.client_id, args.client_secret)
    /\ saves' = Append(saves, "config")
    /\ pc' = "done"
    /\ exitCode' = 0
    /\ UNCHANGED <<fetchVars, tokenFile, cmd, args, authLocals, gvtLocals, response, http,
                   tokenRequests, before>>

NextAuthorize ==
    \/ StartAuthorize
    \/ authorize_bind_fails
    \/ handle_request
    \/ handle_timeout
    \/ server_close
    \/ authorize_check
    \/ exchange_code
    \/ exchange_code_fails
    \/ save_tokens_chmod
    \/ authorize_save_config

SpecAuthorize == InitAuthorize /\ [][NextAuthorize]_vars

\* The same runs, in which the interpreter goes on to its next statement and
\* handle_request returns when server.timeout has passed. Whether a request
\* arrives is up to the outside: handle_request has no fairness.
SpecAuthorizeLive ==
    /\ SpecAuthorize
    /\ WF_vars(handle_timeout)
    /\ WF_vars(server_close)
    /\ WF_vars(authorize_check)

\* --------------------------------------------------------- get_valid_token
\* No setdefault: the response is saved as it came.
setdefault_refresh_token_skipped(d, old) == d

\* new_tokens.setdefault("refresh_token", old): sets the key only if the dict
\* has no such key.
setdefault_refresh_token(d, old) ==
    IF d.refresh_token = Absent THEN [d EXCEPT !.refresh_token = old] ELSE d

\* The old TokenSet overlaid with the response, as {**tokens, **new_tokens}.
Overlay(old, new) ==
    [access_token |-> IF new.access_token # Absent THEN new.access_token
                      ELSE old.access_token,
     refresh_token |-> IF new.refresh_token # Absent THEN new.refresh_token
                       ELSE old.refresh_token,
     expires_in |-> IF new.expires_in # Absent THEN new.expires_in ELSE old.expires_in]

NewTokens_overlaid(d, t) == Overlay(t, d)

\* new_tokens as save_tokens gets it and as line 133 reads it.
NewTokens(d, t) == setdefault_refresh_token(d, t.refresh_token)

\* The early return tested with "client_id" in config, the refresh with
\* "refresh_token" in tokens: an empty string passes.
NoClientId_by_key(f) == load_config(f).client_id = Absent
WantsRefresh_by_key(t) == t.refresh_token # Absent

\* get_valid_token, the two early returns and the choice to refresh.
NoTokens(f) == ~f.exists \/ ~DictTruthy(load_tokens(f))
NoClientId(f) == ~Truthy(load_config(f).client_id)
WantsRefresh(t) == Truthy(t.refresh_token)

\* get_valid_token from load_tokens() to the first return or to the refresh.
get_valid_token ==
    /\ pc = "gvt"
    /\ tokens' = load_tokens(tokenFile)
    /\ IF NoTokens(tokenFile)
       THEN taken' = "no_tokens" /\ ret' = Absent /\ pc' = "main"
       ELSE IF NoClientId(configFile)
       THEN taken' = "no_client_id" /\ ret' = Absent /\ pc' = "main"
       ELSE IF WantsRefresh(load_tokens(tokenFile))
       THEN taken' = taken /\ ret' = ret /\ pc' = "refresh"
       ELSE taken' = "stored" /\ ret' = load_tokens(tokenFile).access_token /\ pc' = "main"
    /\ UNCHANGED <<fetchVars, persisted, cmd, exitCode, args, authLocals, response, http,
                   tokenRequests, saves, before>>

\* The form refresh_access_token posts.
RefreshRequest(refresh_token, client_id, client_secret) ==
    [grant_type |-> "refresh_token", code |-> Absent, code_verifier |-> Absent,
     refresh_token |-> refresh_token, client_id |-> client_id,
     basic |-> BasicAuth(client_id, client_secret)]

\* The request get_valid_token sends: tokens["refresh_token"], config["client_id"],
\* config.get("client_secret", "").
GvtRefreshRequest(t, c) == RefreshRequest(t.refresh_token, c.client_id, c.client_secret)

\* refresh_access_token answered 2xx with a JSON object; setdefault keeps
\* the old refresh token; save_tokens(new_tokens) up to TOKEN_FILE.write_text.
refresh_access_token ==
    /\ pc = "refresh"
    /\ tokenRequests' = Append(tokenRequests,
                               GvtRefreshRequest(tokens, load_config(configFile)))
    /\ \E d \in TokenDicts, m \in CreateModes :
        /\ response' = d
        /\ http' = "2xx"
        /\ tokenFile' = write_text(tokenFile, NewTokens(d, tokens), m)
    /\ saves' = Append(saves, "tokens")
    /\ pc' = "chmod"
    /\ UNCHANGED <<fetchVars, configFile, cmd, exitCode, args, authLocals, gvtLocals, before>>

\* An except branch that returns None.
Fallback_none(t) == Absent

\* The except branch: print the failure, return tokens.get("access_token").
Fallback(t) == t.access_token

\* refresh_access_token raises (network error, non-2xx response).
refresh_access_token_fails ==
    /\ pc = "refresh"
    /\ tokenRequests' = Append(tokenRequests,
                               GvtRefreshRequest(tokens, load_config(configFile)))
    /\ taken' = "fallback"
    /\ ret' = Fallback(tokens)
    /\ http' = "error"
    /\ pc' = "main"
    /\ UNCHANGED <<fetchVars, persisted, cmd, exitCode, args, authLocals, tokens, response,
                   saves, before>>

\* return new_tokens["access_token"], inside the try: a missing key raises
\* KeyError, which the except branch turns into the fallback.
return_new_access_token ==
    /\ pc = "return_new"
    /\ IF NewTokens(response, tokens).access_token # Absent
       THEN taken' = "refreshed" /\ ret' = NewTokens(response, tokens).access_token
       ELSE taken' = "fallback" /\ ret' = Fallback(tokens)
    /\ pc' = "main"
    /\ UNCHANGED <<fetchVars, persisted, cmd, exitCode, args, authLocals, tokens, response, http,
                   tokenRequests, saves, before>>

\* ------------------------------------------------------------------- main
\* The token tools run after the Authorizer: any TokenSet and ClientConfig it
\* can have saved, either file missing.
InitToken ==
    /\ tokenFile \in {NoTokenFile} \cup {SavedTokenFile(d) : d \in TokenDicts}
    /\ configFile \in {NoConfigFile}
                      \cup {save_config(a.client_id, a.client_secret) : a \in ArgSets}
    /\ InitLocals
    /\ InitFetchVars

\* A new process: nothing but the two files survives the previous one.
Fresh(c, a) ==
    /\ pc \in {"idle", "done", "fetch_all_bookmarks"}
    /\ cmd' = c
    /\ args' = a
    /\ exitCode' = -1
    /\ tokens' = EmptyDict
    /\ response' = EmptyDict
    /\ http' = "none"
    /\ taken' = "none"
    /\ tokenRequests' = <<>>
    /\ UNCHANGED authLocals

\* x_api_auth.py --print-token
StartPrintToken ==
    /\ Fresh("print_token", NoArgs)
    /\ ret' = Absent
    /\ saves' = <<>>
    /\ before' = [tokenFile |-> tokenFile, configFile |-> configFile]
    /\ pc' = "gvt"
    /\ UNCHANGED <<fetchVars, persisted>>

\* x_api_auth.py --refresh: save_config(args.client_id, args.client_secret),
\* then get_valid_token().
StartRefresh ==
    \E a \in ArgSets :
        /\ Fresh("refresh", a)
        /\ ret' = Absent
        /\ configFile' = save_config(a.client_id, a.client_secret)
        /\ saves' = <<"config">>
        /\ before' = [tokenFile |-> tokenFile,
                      configFile |-> save_config(a.client_id, a.client_secret)]
        /\ pc' = "gvt"
        /\ UNCHANGED <<fetchVars, tokenFile>>

\* fetch_bookmarks_api.py main: X_API_BEARER_TOKEN, else get_valid_token().
StartFetch ==
    \E bearer \in {Absent, Empty, 1} :
        /\ Fresh("fetch", NoArgs)
        /\ ret' = bearer
        /\ saves' = <<>>
        /\ before' = [tokenFile |-> tokenFile, configFile |-> configFile]
        /\ pc' = IF Truthy(bearer) THEN "main" ELSE "gvt"
        /\ UNCHANGED <<fetchVars, persisted>>

\* What the caller does with the token: exit 1 without one; with one,
\* print-token and refresh exit 0 and the fetcher goes on to fetch.
ExitWithout(token) == ~Truthy(token)

main_token ==
    /\ pc = "main"
    /\ IF ExitWithout(ret)
       THEN pc' = "done" /\ exitCode' = 1
       ELSE IF cmd = "fetch"
       THEN pc' = "fetch_all_bookmarks" /\ UNCHANGED exitCode
       ELSE pc' = "done" /\ exitCode' = 0
    /\ UNCHANGED <<fetchVars, persisted, cmd, args, authLocals, gvtLocals, response, http,
                   tokenRequests, saves, before>>

NextToken ==
    \/ StartPrintToken
    \/ StartRefresh
    \/ StartFetch
    \/ get_valid_token
    \/ refresh_access_token
    \/ refresh_access_token_fails
    \/ save_tokens_chmod
    \/ return_new_access_token
    \/ main_token

SpecToken == InitToken /\ [][NextToken]_vars

\* ----------------------------------------------------- fetch_all_bookmarks
MAX_RESULTS_PER_PAGE == 100
Inf == 1000000     \* float("inf")

Min(a, b) == IF a < b THEN a ELSE b

\* --count: small counts, and one that needs more than a full page.
Counts == (-1..MaxCount) \cup {MAX_RESULTS_PER_PAGE + MaxCount}

\* The page requests followed per run; a count within MaxCount never needs
\* more than MaxCount.
PageCap == IF count > MaxCount THEN MaxLongPages ELSE MaxCount + 1

\* How many items a page can hold: few, or as many as were asked for.
PageSizes(max_results) == (0..MaxPageItems) \cup {max_results}
Cursors == 1..MaxCursor
HttpErrors == {401, 429, 500}
RATE_LIMITED == 429

\* The raw items of a page: the j-th item of the i-th page is tweet <<i, j>>.
PageData(i, n) == [j \in 1..n |-> [id |-> <<i, j>>]]

\* tweet.get("referenced_tweets", [])
referenced_tweets(tweet) ==
    IF "referenced_tweets" \in DOMAIN tweet THEN tweet.referenced_tweets ELSE <<>>

\* A test that takes every reference for a quote.
IsQuoted_any(ref) == TRUE

\* ref.get("type") == "quoted"
IsQuoted(ref) == ref.type = "quoted"

\* "quoted = None; for ref in ...: if ...: quoted = {"id": ref["id"]}", with
\* None as <<>> and a dict d as <<d>>.
RECURSIVE ResolveQuoted(_, _)
ResolveQuoted(refs, quoted) ==
    IF refs = <<>>
    THEN quoted
    ELSE ResolveQuoted(Tail(refs),
                       IF IsQuoted(Head(refs)) THEN <<[id |-> Head(refs).id]>> ELSE quoted)

\* normalize_tweet: the id, and quotedTweet when a quote was resolved (the
\* other fields are copied from the tweet, its author and its media).
normalize_tweet(tweet) ==
    LET quoted == ResolveQuoted(referenced_tweets(tweet), <<>>) IN
    IF quoted # <<>>
    THEN [id |-> tweet.id, quotedTweet |-> quoted[1]]
    ELSE [id |-> tweet.id]

\* for tweet in data: bookmarks.append(normalize_tweet(tweet, users, media))
Normalized(data) == [j \in 1..Len(data) |-> normalize_tweet(data[j])]

\* main has a token (here X_API_BEARER_TOKEN on a fresh install) and calls
\* fetch_all_bookmarks(token, count=args.count, all_pages=args.all, since_id=...).
InitFetch ==
    /\ tokenFile = NoTokenFile
    /\ configFile = NoConfigFile
    /\ cmd = "fetch"
    /\ pc = "fetch_all_bookmarks"
    /\ exitCode = -1
    /\ args = NoArgs
    /\ state = Absent
    /\ verifier = Absent
    /\ challenge = NoChallenge
    /\ auth_params = NoAuthParams
    /\ result = [code |-> Absent, error |-> Absent]
    /\ server = "none"
    /\ request = NoRequest
    /\ handled = 0
    /\ tokens = EmptyDict
    /\ response = EmptyDict
    /\ http = "none"
    /\ ret = 1
    /\ taken = "none"
    /\ tokenRequests = <<>>
    /\ saves = <<>>
    /\ before = [tokenFile |-> NoTokenFile, configFile |-> NoConfigFile]
    /\ count \in Counts
    /\ all_pages \in BOOLEAN
    /\ since_id \in {Absent, 1}
    /\ remaining = 0
    /\ bookmarks = <<>>
    /\ pagination_token = Absent
    /\ pageRequests = <<>>
    /\ responses = <<>>
    /\ retval = <<>>
    /\ raised = "none"

authVars == <<persisted, cmd, args, authLocals, gvtLocals, response, http, tokenRequests,
              saves, before>>

\* remaining = count if not all_pages else float("inf")
InitialRemaining(n, all) == IF all THEN Inf ELSE n

\* get_me answers; bookmarks, pagination_token and remaining are set up.
get_me ==
    /\ pc = "fetch_all_bookmarks"
    /\ bookmarks' = <<>>
    /\ pagination_token' = Absent
    /\ remaining' = InitialRemaining(count, all_pages)
    /\ pc' = "loop"
    /\ UNCHANGED <<authVars, exitCode, count, all_pages, since_id, pageRequests, responses,
                   retval, raised>>

\* get_me: urlopen raises; fetch_all_bookmarks catches nothing there.
get_me_fails ==
    /\ pc = "fetch_all_bookmarks"
    /\ raised' = "HTTPError"
    /\ pc' = "raised"
    /\ UNCHANGED <<authVars, exitCode, count, all_pages, since_id, remaining, bookmarks,
                   pagination_token, pageRequests, responses, retval>>

\* while remaining > 0 is false: return bookmarks.
loop_exit ==
    /\ pc = "loop"
    /\ ~(remaining > 0)
    /\ retval' = bookmarks
    /\ pc' = "returned"
    /\ UNCHANGED <<authVars, exitCode, count, all_pages, since_id, remaining, bookmarks,
                   pagination_token, pageRequests, responses, raised>>

\* int(remaining) raises OverflowError when remaining is float("inf").
IntRaises(r) == r = Inf

\* page_size = min(int(remaining), MAX_RESULTS_PER_PAGE), outside the try.
page_size_raises ==
    /\ pc = "loop"
    /\ remaining > 0
    /\ IntRaises(remaining)
    /\ raised' = "OverflowError"
    /\ pc' = "raised"
    /\ UNCHANGED <<authVars, exitCode, count, all_pages, since_id, remaining, bookmarks,
                   pagination_token, pageRequests, responses, retval>>

\* A request that never carries the cursor.
PageRequest_without_cursor(token, page_size, cursor, since) ==
    [token |-> token,
     max_results |-> Min(page_size, MAX_RESULTS_PER_PAGE),
     pagination_token |-> Absent,
     since_id |-> IF Truthy(since) THEN since ELSE Absent]

\* The request fetch_bookmarks_page sends.
PageRequest(token, page_size, cursor, since) ==
    [token |-> token,
     max_results |-> Min(page_size, MAX_RESULTS_PER_PAGE),
     pagination_token |-> IF Truthy(cursor) THEN cursor ELSE Absent,
     since_id |-> IF Truthy(since) THEN since ELSE Absent]

\* A loop that asks for the whole count on every page.
NextPageRequest_whole_count ==
    PageRequest(ret, Min(count, MAX_RESULTS_PER_PAGE), pagination_token, since_id)

NextPageRequest ==
    PageRequest(ret, Min(remaining, MAX_RESULTS_PER_PAGE), pagination_token, since_id)

\* Every HTTPError taken as a rate limit.
Caught_any(status) == TRUE

\* "if e.code == 429: ... break", else "raise".
Caught(status) == status = RATE_LIMITED

\* fetch_bookmarks_page raises HTTPError.
fetch_page_http_error ==
    /\ pc = "loop"
    /\ remaining > 0
    /\ ~IntRaises(remaining)
    /\ Len(pageRequests) < PageCap
    /\ pageRequests' = Append(pageRequests, NextPageRequest)
    /\ \E e \in HttpErrors :
        /\ responses' = Append(responses, [status |-> e, data |-> <<>>, next_token |-> Absent])
        /\ IF Caught(e)
           THEN retval' = bookmarks /\ pc' = "returned" /\ UNCHANGED raised
           ELSE raised' = "HTTPError" /\ pc' = "raised" /\ UNCHANGED retval
    /\ UNCHANGED <<authVars, exitCode, count, all_pages, since_id, remaining, bookmarks,
                   pagination_token>>

\* The break tested with "is None": an empty cursor goes on.
HasNext_not_none(cursor) == cursor # Absent

\* "if not pagination_token: break"
HasNext(cursor) == Truthy(cursor)

\* One pass of the loop body in which fetch_bookmarks_page answers with the
\* items data and the cursor nt, and the return when the loop breaks.
LoopBody(data, nt) ==
    /\ pc = "loop"
    /\ remaining > 0
    /\ ~IntRaises(remaining)
    /\ Len(pageRequests) < PageCap
    /\ pageRequests' = Append(pageRequests, NextPageRequest)
    /\ responses' = Append(responses, [status |-> 200, data |-> data, next_token |-> nt])
    /\ IF data = <<>>
       THEN /\ retval' = bookmarks
            /\ pc' = "returned"
            /\ UNCHANGED <<bookmarks, remaining, pagination_token>>
       ELSE /\ bookmarks' = bookmarks \o Normalized(data)
            /\ remaining' = remaining - Len(data)
            /\ pagination_token' = nt
            /\ IF HasNext(nt)
               THEN pc' = "loop" /\ UNCHANGED retval
               ELSE pc' = "returned" /\ retval' = bookmarks \o Normalized(data)
    /\ UNCHANGED <<authVars, exitCode, count, all_pages, since_id, raised>>

\* fetch_bookmarks_page answers with n items and a next_token (or none).
fetch_page ==
    /\ pc = "loop"
    /\ \E n \in PageSizes(NextPageRequest.max_results), nt \in {Absent, Empty} \cup Cursors :
        LoopBody(PageData(Len(pageRequests) + 1, n), nt)

\* main prints the list and returns.
main_print ==
    /\ pc = "returned"
    /\ exitCode' = 0
    /\ pc' = "done"
    /\ UNCHANGED <<authVars, fetchVars>>

\* An exception leaves main: the interpreter exits with status 1.
main_uncaught ==
    /\ pc = "raised"
    /\ exitCode' = 1
    /\ pc' = "done"
    /\ UNCHANGED <<authVars, fetchVars>>

NextFetch ==
    \/ get_me
    \/ get_me_fails
    \/ loop_exit
    \/ page_size_raises
    \/ fetch_page_http_error
    \/ fetch_page
    \/ main_print
    \/ main_uncaught

\* --------------------------------------------------------- SpecNormalize
\* The references a raw item can carry: the key missing, or up to MaxRefs
\* entries.
RefTypes == {"quoted", "replied_to"}
RefIds == {"Q1", "Q2"}
Refs == [type : RefTypes, id : RefIds]
RefLists == UNION {[1..n -> Refs] : n \in 0..MaxRefs}

\* The j-th raw item of the page, without and with referenced_tweets.
RawTweets(j) ==
    {[id |-> <<1, j>>]} \cup {[id |-> <<1, j>>, referenced_tweets |-> r] : r \in RefLists}

\* fetch_all_bookmarks(token, count=2) on a fresh install.
InitNormalize ==
    /\ InitFetch
    /\ count = 2
    /\ ~all_pages
    /\ since_id = Absent

\* fetch_bookmarks_page answers with a page of two items.
fetch_quoting_page ==
    /\ pc = "loop"
    /\ \E t1 \in RawTweets(1), t2 \in RawTweets(2), nt \in {Absent, 1} :
        LoopBody(<<t1, t2>>, nt)

NextNormalize ==
    \/ get_me
    \/ fetch_quoting_page
    \/ loop_exit
    \/ main_print

SpecNormalize == InitNormalize /\ [][NextNormalize]_vars

SpecFetch == InitFetch /\ [][NextFetch]_vars

TypeOK ==
    /\ tokenFile.content \in TokenDicts
    /\ pc \in {"idle", "listening", "handled", "closed", "exchange",
               "chmod", "save_config", "gvt", "refresh", "return_new", "main",
               "fetch_all_bookmarks", "loop", "returned", "raised", "done"}
    /\ exitCode \in {-1, 0, 1}

\* ============================================================ properties
\* get_valid_token has been called by this process.
GvtCalled ==
    /\ cmd \in {"print_token", "refresh", "fetch"}
    /\ pc \in {"refresh", "chmod", "return_new"} \/ taken # "none"

\* The TokenSet and ClientConfig that were persisted when it was called.
OldTokenSet == before.tokenFile.content
OldClientConfig == before.configFile.content

NotSaved(file) == \A i \in 1..Len(saves) : saves[i] # file

\* The callback the listener handled does not carry the generated state.
StateMismatched == request.path = "/callback" /\ request.state # state

\* C1: a callback whose state is missing or differs from the generated one
\* sets error and leaves code absent, even if it carries a code; no token
\* request is made and the process exits with status 1.
C1_StateMismatchRejected ==
    StateMismatched =>
        /\ result.error # Absent
        /\ result.code = Absent
        /\ tokenRequests = <<>>
        /\ pc \in {"handled", "closed", "done"}
        /\ (pc = "done" => exitCode = 1)

C1_Witness ==
    /\ pc = "done"
    /\ exitCode = 1
    /\ request.path = "/callback"
    /\ request.state \in Nonces
    /\ request.state # state
    /\ request.code # Absent
    /\ request.error = Absent

\* C2: with a TokenSet (access token and refresh token) and a client id
\* persisted, a failed refresh request makes get_valid_token return the
\* access token persisted before the call, not absent, without raising.
C2_FailedRefreshFallsBack ==
    ( /\ GvtCalled
      /\ http = "error"
      /\ before.tokenFile.exists
      /\ OldTokenSet.access_token # Absent
      /\ Truthy(OldTokenSet.refresh_token)
      /\ Truthy(OldClientConfig.client_id) )
    => /\ pc \in {"main", "done", "fetch_all_bookmarks"}
       /\ ret = OldTokenSet.access_token
       /\ ret # Absent

C2_Witness ==
    /\ cmd = "print_token"
    /\ http = "error"
    /\ OldTokenSet.access_token = 1
    /\ Truthy(OldTokenSet.refresh_token)
    /\ ret = 1
    /\ pc = "done"
    /\ exitCode = 0

\* get_valid_token has returned after a refresh that succeeded: the token
\* endpoint answered 2xx with an access token.
RefreshSucceeded ==
    /\ GvtCalled
    /\ http = "2xx"
    /\ response.access_token # Absent
    /\ pc \in {"main", "done", "fetch_all_bookmarks"}

\* C3: a successful refresh whose response has no refresh_token persists the
\* refresh token stored before the call and returns the response's access token.
C3_RefreshTokenPreserved ==
    (RefreshSucceeded /\ response.refresh_token = Absent)
    => /\ tokenFile.content.refresh_token = OldTokenSet.refresh_token
       /\ ret = response.access_token

C3_Witness ==
    /\ taken = "refreshed"
    /\ response.refresh_token = Absent
    /\ response.access_token = 2
    /\ OldTokenSet.access_token = 1
    /\ OldTokenSet.refresh_token = 1
    /\ tokenFile.content.refresh_token = 1
    /\ ret = 2
    /\ pc = "done"

\* C4: with a TokenSet without refresh token and a client id persisted,
\* get_valid_token sends no token request, returns the stored access token
\* and does not rewrite the TokenSet.
C4_NoRefreshTokenNoRequest ==
    ( /\ GvtCalled
      /\ before.tokenFile.exists
      /\ DictTruthy(OldTokenSet)
      /\ ~Truthy(OldTokenSet.refresh_token)
      /\ Truthy(OldClientConfig.client_id) )
    => /\ taken = "stored"
       /\ tokenRequests = <<>>
       /\ ret = OldTokenSet.access_token
       /\ NotSaved("tokens")
       /\ tokenFile = before.tokenFile

C4_Witness ==
    /\ GvtCalled
    /\ OldTokenSet.access_token = 2
    /\ OldTokenSet.refresh_token = Absent
    /\ Truthy(OldClientConfig.client_id)
    /\ ret = 2
    /\ pc = "done"
    /\ exitCode = 0

C6_BothPersisted ==
    /\ saves = <<"tokens", "config">>
    /\ Len(tokenRequests) = 1
    /\ tokenRequests[1].grant_type = "authorization_code"
    /\ http = "2xx"
    /\ tokenFile.exists
    /\ tokenFile.content = response
    /\ configFile.exists
    /\ configFile.content.client_id = args.client_id
    /\ configFile.content.client_secret =
           IF args.client_secret = Empty THEN Absent ELSE args.client_secret

\* C6: a run of authorize ends either with both files persisted as above, or
\* with a non-zero exit status, never both.
C6_AuthorizePersistsOrFails ==
    (cmd = "authorize" /\ pc = "done")
    => \/ exitCode = 0 /\ C6_BothPersisted
       \/ exitCode = 1 /\ ~C6_BothPersisted

C6_Witness ==
    /\ cmd = "authorize"
    /\ pc = "done"
    /\ exitCode = 0
    /\ args.client_secret # Empty
    /\ configFile.content.client_secret = args.client_secret
    /\ before.tokenFile.exists
    /\ tokenFile.content # OldTokenSet
    /\ tokenFile.content = response

\* The listener returned with a captured code.
GoodCallback ==
    /\ handled = 1
    /\ request.path = "/callback"
    /\ request.state = state
    /\ request.error = Absent
    /\ request.code # Absent

\* C7: the code exchange and the writes happen only after the listener was
\* closed with a captured code; in every other outcome the process exits with
\* status 1, no token request, no retry, and both files unchanged.
C7_ExchangeOnlyAfterCode ==
    /\ ( \/ tokenRequests # <<>>
         \/ saves # <<>>
         \/ pc \in {"exchange", "chmod", "save_config"}
         \/ tokenFile # before.tokenFile
         \/ configFile # before.configFile )
       => (GoodCallback /\ server = "closed" /\ result.code = request.code)
    /\ (cmd = "authorize" /\ pc = "done" /\ ~GoodCallback)
       => (exitCode = 1 /\ handled <= 1 /\ server # "open")
    /\ Len(tokenRequests) <= 1

C7_Witness ==
    /\ pc = "done"
    /\ exitCode = 1
    /\ request.path = "/callback"
    /\ request.state = state
    /\ request.error # Absent
    /\ request.code # Absent
    /\ tokenRequests = <<>>
    /\ tokenFile = SavedTokenFile(OldTokens)

\* C8 as the specification states it: after a successful refresh the persisted TokenSet is the old
\* one overlaid with the response, every omitted field keeping its old value.
C8_Original ==
    RefreshSucceeded
    => tokenFile.content = Overlay(OldTokenSet, response)

\* C8, amended: after a successful refresh the persisted TokenSet is the
\* response itself, with the old refresh_token added when the response has
\* none; the other fields the response omits are not kept.
C8_ResponsePlusOldRefreshToken ==
    RefreshSucceeded
    => /\ tokenFile.content.access_token = response.access_token
       /\ tokenFile.content.expires_in = response.expires_in
       /\ tokenFile.content.refresh_token =
              IF response.refresh_token = Absent THEN OldTokenSet.refresh_token
              ELSE response.refresh_token

C8_Witness ==
    /\ taken = "refreshed"
    /\ OldTokenSet.expires_in # Absent
    /\ response.expires_in = Absent
    /\ response.refresh_token = Absent
    /\ tokenFile.content.expires_in = Absent
    /\ tokenFile.content.refresh_token = OldTokenSet.refresh_token

\* The status of the last page response, 0 before the first.
LastStatus == IF responses = <<>> THEN 0 ELSE responses[Len(responses)].status

\* The normalized items of the pages answered so far, in order.
RECURSIVE Accumulated(_)
Accumulated(n) ==
    IF n = 0 THEN <<>> ELSE Accumulated(n - 1) \o Normalized(responses[n].data)

\* C9: an HTTP error on a page request ends the loop with the accumulated
\* items returned exactly when its status is 429; any other status leaves
\* fetch_all_bookmarks as an exception and no list is returned.
C9_Only429IsCaught ==
    /\ LastStatus = 429
       => /\ pc \in {"returned", "done"}
          /\ raised = "none"
          /\ retval = Accumulated(Len(responses))
          /\ (pc = "done" => exitCode = 0)
    /\ LastStatus \in HttpErrors \ {429}
       => /\ pc \in {"raised", "done"}
          /\ raised = "HTTPError"
          /\ retval = <<>>
          /\ (pc = "done" => exitCode = 1)

C9_Witness ==
    /\ LastStatus = 429
    /\ Len(responses) = 3
    /\ Len(retval) = 2
    /\ pc = "done"
    /\ exitCode = 0

\* C10: after a page response without next-page cursor (absent or empty) no
\* further page request is made and the accumulated items are returned,
\* whether or not the requested count was reached.
C10_NoCursorEndsPagination ==
    \A i \in 1..Len(responses) :
        (responses[i].status = 200 /\ ~Truthy(responses[i].next_token))
        => /\ i = Len(pageRequests)
           /\ pc \in {"returned", "done"}
           /\ raised = "none"
           /\ retval = Accumulated(Len(responses))

C10_Witness ==
    /\ Len(responses) = 2
    /\ responses[2].status = 200
    /\ responses[2].next_token = Empty
    /\ Len(responses[2].data) = 1
    /\ remaining > 0
    /\ Len(retval) = 2
    /\ pc = "returned"

\* Items accumulated when the i-th page request was sent.
AccumulatedBefore(i) == Len(Accumulated(i - 1))

\* Every page so far held at most the number of items requested for it.
PagesWithinRequest ==
    \A i \in 1..Len(responses) : Len(responses[i].data) <= pageRequests[i].max_results

\* C11: with all_pages false and count n, a page is requested only while
\* fewer than n items are accumulated, each request asks for
\* min(n - accumulated, 100) items, so pages within their request give a list
\* of at most n items; for n <= 0 no page is requested and the list is empty.
C11_RequestsFollowRemaining ==
    ~all_pages =>
        /\ \A i \in 1..Len(pageRequests) :
            /\ AccumulatedBefore(i) < count
            /\ pageRequests[i].max_results =
                   Min(count - AccumulatedBefore(i), MAX_RESULTS_PER_PAGE)
        /\ (count > 0 /\ PagesWithinRequest) =>
               (Len(bookmarks) <= count /\ Len(retval) <= count)
        /\ count <= 0 => (pageRequests = <<>> /\ bookmarks = <<>> /\ retval = <<>>)

C11_Witness ==
    /\ ~all_pages
    /\ count > MAX_RESULTS_PER_PAGE
    /\ Len(pageRequests) = 2
    /\ pageRequests[1].max_results = MAX_RESULTS_PER_PAGE
    /\ Len(responses[1].data) = MAX_RESULTS_PER_PAGE
    /\ pageRequests[2].max_results = count - MAX_RESULTS_PER_PAGE
    /\ PagesWithinRequest
    /\ Len(retval) = count
    /\ pc = "returned"

\* C12: whenever tokens.json exists and holds token content, between the steps
\* of save_tokens too, its mode gives access to the owning user only.
C12_TokenFileOwnerOnly ==
    (tokenFile.exists /\ Truthy(tokenFile.content.access_token)) =>
        tokenFile.mode = "0600"

\* C13: outside a successful authorization the persisted ClientConfig is only
\* read: no step of print-token, refresh-only, the fetcher or get_valid_token
\* changes config.json, a stored client secret included.
C13_ConfigOnlyRead ==
    [][cmd' \in {"print_token", "refresh", "fetch"} => configFile' = configFile]_vars

\* The characters a URL carries unescaped (RFC 3986 unreserved).
UrlSafeChars == {"A-Z", "a-z", "0-9", "-", ".", "_", "~"}

\* Unpadded base64url(SHA-256(v)): the 43 characters that encode the 32 bytes
\* of the digest of v.
UnpaddedBase64UrlSha256(v) ==
    [of |-> [digest_of |-> v, bytes |-> 32], chars |-> Base64UrlChars, len |-> 43, pad |-> 0]

\* C14: every authorization attempt has a generated verifier of 43 to 128
\* URL-safe characters, its URL carries method S256 and the challenge
\* unpadded base64url(SHA-256(verifier)), the code exchange sends that same
\* verifier, and neither file ever holds anything but what it held before,
\* the token response, or the client id and secret given.
C14_PkcePair ==
    cmd = "authorize" =>
        /\ verifier \in Nonces
        /\ VerifierText.len >= 43
        /\ VerifierText.len <= 128
        /\ VerifierText.chars \subseteq UrlSafeChars
        /\ auth_params.code_challenge_method = "S256"
        /\ auth_params.code_challenge = UnpaddedBase64UrlSha256(verifier)
        /\ auth_params.state = state
        /\ \A i \in 1..Len(tokenRequests) : tokenRequests[i].code_verifier = verifier
        /\ tokenFile.content \in {before.tokenFile.content, response}
        /\ configFile.content \in
               {before.configFile.content,
                save_config(args.client_id, args.client_secret).content}

C14_Witness ==
    /\ cmd = "authorize"
    /\ pc = "done"
    /\ exitCode = 0
    /\ verifier = 2
    /\ state = 1
    /\ Len(tokenRequests) = 1
    /\ tokenRequests[1].code_verifier = 2
    /\ auth_params.code_challenge.of.digest_of = 2
    /\ saves = <<"tokens", "config">>

\* The raw item has a referenced_tweets entry of type "quoted".
HasQuotedEntry(tweet) ==
    \E k \in 1..Len(referenced_tweets(tweet)) : referenced_tweets(tweet)[k].type = "quoted"

\* C15: the normalized item has a quotedTweet field exactly when the raw item
\* has a referenced_tweets entry of type "quoted", and the field is then
\* {id: that entry's id}; this item by item, whatever the page's other items.
C15_QuotedTweetIffQuotedEntry ==
    \A j \in 1..Len(bookmarks) :
        LET tweet == responses[1].data[j]
            out == bookmarks[j]
            refs == referenced_tweets(tweet)
        IN /\ ("quotedTweet" \in DOMAIN out) <=> HasQuotedEntry(tweet)
           /\ "quotedTweet" \in DOMAIN out =>
                  \E k \in 1..Len(refs) :
                      refs[k].type = "quoted" /\ out.quotedTweet = [id |-> refs[k].id]

C15_Witness ==
    /\ Len(retval) = 2
    /\ "quotedTweet" \in DOMAIN retval[1]
    /\ retval[1].quotedTweet = [id |-> "Q1"]
    /\ referenced_tweets(responses[1].data[1]) = <<[type |-> "quoted", id |-> "Q1"]>>
    /\ referenced_tweets(responses[1].data[2]) = <<[type |-> "replied_to", id |-> "Q2"]>>
    /\ "quotedTweet" \notin DOMAIN retval[2]

\* The listener is never open outside the wait for the one request, and it
\* handles at most one request.
C16_ListenerSafe ==
    /\ handled <= 1
    /\ server = "open" => pc \in {"listening", "handled"}
    /\ (pc \in {"exchange", "chmod", "save_config"} \/ tokenRequests # <<>>)
           => server = "closed"
    /\ (cmd = "authorize" /\ pc = "done") => server # "open"

C17_FailurePathLeavesTokenSet ==
    (GvtCalled /\ taken = "fallback") => tokenFile = before.tokenFile

\* get_valid_token sent only refresh requests, each with the refresh token
\* that was persisted when it was called.
C18_SendsPersisted ==
    \A i \in 1..Len(tokenRequests) :
        /\ tokenRequests[i].grant_type = "refresh_token"
        /\ tokenRequests[i].refresh_token = OldTokenSet.refresh_token

\* The persisted refresh token is the one a 2xx response of this call
\* carried, or else the one persisted before.
C18_RotatedOnlyByResponse ==
    tokenFile.content.refresh_token =
        IF http = "2xx" /\ response.refresh_token # Absent
        THEN response.refresh_token
        ELSE OldTokenSet.refresh_token

\* A TokenSet that had a refresh token still has one.
C18_RefreshTokenKept ==
    Truthy(OldTokenSet.refresh_token) => Truthy(tokenFile.content.refresh_token)

\* C18: every refresh request carries the refresh token currently persisted,
\* which only a successful response that carries one replaces, so a replaced
\* one is not sent again; and the persisted TokenSet never loses its refresh
\* token. Stated for one call from any persisted state, hence for any
\* sequence of calls.
C18_RefreshTokenTracked ==
    GvtCalled =>
        /\ C18_SendsPersisted
        /\ C18_RotatedOnlyByResponse
        /\ C18_RefreshTokenKept

\* C19: the first page request has no cursor, each later one has the
\* next_token of the response just before it, all have the same since_id and
\* access token, and the list returned is the normalized items of the pages
\* answered, in page order and in-page order.
C19_CursorChainAndConcatenation ==
    /\ \A i \in 1..Len(pageRequests) :
        /\ pageRequests[i].token = ret
        /\ pageRequests[i].since_id = since_id
        /\ pageRequests[i].pagination_token =
               IF i = 1 THEN Absent ELSE responses[i - 1].next_token
        /\ i > 1 => responses[i - 1].status = 200
    /\ (pc \in {"returned", "done"} /\ raised = "none")
           => retval = Accumulated(Len(responses))

C19_Witness ==
    /\ pc = "returned"
    /\ Len(pageRequests) = 3
    /\ pageRequests[2].pagination_token = 2
    /\ pageRequests[3].pagination_token = 1
    /\ since_id = 1
    /\ retval = <<[id |-> <<1, 1>>], [id |-> <<2, 1>>], [id |-> <<3, 1>>]>>

\* With a count n, at most n page requests, and every pass of the loop ends
\* it or lowers remaining.
C20_AtMostCountRequests ==
    ~all_pages =>
        /\ Len(pageRequests) <= (IF count > 0 THEN count ELSE 0)
        /\ pc = "loop" => remaining <= count - Len(pageRequests)

\* fetch_all_bookmarks has ended, by return or by exception.
FetchEnded == pc \in {"returned", "raised"} \/ (cmd = "fetch" /\ pc = "done")

\* The provider's last answer ends the pagination: an HTTP error, a page
\* with no items or a page with no cursor.
ProviderEndedIt ==
    \/ raised = "HTTPError"
    \/ /\ responses # <<>>
       /\ \/ LastStatus # 200
          \/ responses[Len(responses)].data = <<>>
          \/ ~Truthy(responses[Len(responses)].next_token)

\* C20: with a count n fetch_all_bookmarks ends within n page requests; with
\* all_pages it ends only when the provider answers with an HTTP error, a
\* page with no items or a page with no cursor.
C20_Termination ==
    /\ C20_AtMostCountRequests
    /\ (all_pages /\ FetchEnded) => ProviderEndedIt

====
